---- MODULE Spec2Model ----
(***************************************************************************)
(* IceBox service manager (cpp/src/IceBox/ServiceManagerI.cpp).            *)
(*                                                                         *)
(* The lifecycle thread executes ServiceManagerI::run(); worker threads of *)
(* the communicator dispatch ServiceManagerI::shutdown().  Services are   *)
(* named by positive integers; the order of the integers is the key order  *)
(* of the std::map objects `services` (run) and `_services` (the           *)
(* registry).                                                              *)
(***************************************************************************)
EXTENDS Integers, Sequences, FiniteSets, TLC

\* ------------------------------------------------------------------ bounds
MaxServices == 3
NumClients == 2
MaxOptions == 2
MaxValueLen == 4
NumThreads == 2
MaxRefs == 3

\* ------------------------------------------------------------- constants
END == 0
EXIT_SUCCESS == 0
EXIT_FAILURE == 1

Names == 1..MaxServices
Clients == 1..NumClients
Threads == 1..NumThreads

VARIABLES
    cfg,            \* names under the prefix "IceBox.Service." (run: services)
    bundleName,     \* value of IceBox.PrintServicesReady
    pc,             \* position of the lifecycle thread inside run()
    p,              \* run(): iterator of the init loop
    r,              \* run(): iterator of the start loop
    sr,             \* stopAll(): iterator r
    from,           \* call site of the running stopAll()
    services,       \* keys of _services
    instRefs,       \* per service: handles that reference the Service
    libRefs,        \* per service: handles that reference the DynamicLibrary
    instMade,       \* services whose factory returned an instance
    libMade,        \* services whose entry point was loaded
    unwind,         \* handle releases still to be executed, in program order
    stopping,       \* service whose Service::stop() is executing, or END
    exc,            \* exception in flight towards the handlers of run()
    raisedAt,       \* history: the step of run() that raised exc
    calls,          \* history: calls made on services and on the communicator
    logged,         \* history: reasons written to the logger
    stdout,         \* history: lines written to cout
    adapterActive,  \* adapter->activate() has returned
    shutdownFlag,   \* _communicator->shutdown() has been called
    cl,             \* per client: position of its shutdown() invocation
    stopAllCount,   \* history: number of invocations of stopAll()
    entry,          \* history: keys of _services when stopAll() was entered
    assertFailed,   \* an assert() of stop()/stopAll() failed
    ret             \* <<value returned by run()>>, empty until it returns

\* init(): composition of the property set of one service
VARIABLES
    options,            \* _options
    args,               \* init(): args
    argv,               \* _argv
    serviceArgs,        \* init(): serviceArgs
    serviceProperties,  \* init(): serviceProperties, key -> value
    ipc                 \* position inside the composition

composeVars == <<options, args, argv, serviceArgs, serviceProperties, ipc>>

\* run(): separation of the entry point from the arguments
VARIABLES
    value,              \* run(): value, a sequence of characters
    entryPoint,         \* run(): entryPoint
    runArgs,            \* run(): args
    beg,                \* run(): beg
    tpc                 \* position inside the separation

tokenVars == <<value, entryPoint, runArgs, beg, tpc>>

\* IceUtil::Shared: one reference-counted object and the threads that use it
VARIABLES
    ref,                \* _ref.counter
    holds,              \* per thread: references (handles) the thread holds
    hpc,                \* per thread: position inside __incRef / __decRef
    seen,               \* per thread: value read for the assert
    everHeld,           \* a handle of the object has existed
    deleted,            \* number of executions of `delete this`
    refAssertFailed     \* an assert of __incRef / __decRef failed

sharedVars == <<ref, holds, hpc, seen, everHeld, deleted, refAssertFailed>>

otherVars == <<composeVars, tokenVars, sharedVars>>

vars == <<cfg, bundleName, pc, p, r, sr, from, services, instRefs, libRefs,
          instMade, libMade, unwind, stopping, exc, raisedAt, calls, logged,
          stdout, adapterActive, shutdownFlag, cl, stopAllCount, entry,
          assertFailed, ret, otherVars>>

\* --------------------------------------------------------------- exceptions
\* What a call into the runtime or into a service can raise, by the catch
\* clause that matches it: IceBox::FailureException, another Ice::Exception,
\* or an exception that is not an Ice::Exception (matched by catch(...) only).
NoEx == [kind |-> "none", ice_name |-> "", what |-> "", reason |-> ""]
ServiceFailure == [kind |-> "Failure", ice_name |-> "IceBox::FailureException",
                   what |-> "R", reason |-> "R"]
IceException == [kind |-> "Exception", ice_name |-> "Ice::UnknownLocalException",
                 what |-> "boom", reason |-> ""]
UnknownException == [kind |-> "Unknown", ice_name |-> "", what |-> "boom",
                     reason |-> ""]

FailureException(reason) ==
    [kind |-> "Failure", ice_name |-> "IceBox::FailureException",
     what |-> reason, reason |-> reason]

ServiceOutcomes == {NoEx, ServiceFailure, IceException, UnknownException}
RuntimeOutcomes == {NoEx, IceException}

\* ------------------------------------------------------------ map iterators
\* std::map iteration: the element after key x in key order, END past the last.
MapNext(S, x) ==
    IF \E y \in S : y > x
    THEN CHOOSE y \in S : y > x /\ \A z \in S : z > x => y <= z
    ELSE END

MapBegin(S) == MapNext(S, END)

RECURSIVE MapOrder(_)
MapOrder(S) ==
    IF S = {} THEN <<>> ELSE <<MapBegin(S)>> \o MapOrder(S \ {MapBegin(S)})

\* ------------------------------------------------------------------ handles
\* A Service or DynamicLibrary object lives while some handle references it
\* (IceUtil::Handle over IceUtil::Shared).  The handles of service s:
\*   "library"                      init(): local DynamicLibraryPtr library
\*   "info.service", "info.library" init()/stop(): local ServiceInfo info
\*   "map.service", "map.library"   the ServiceInfo stored in _services
\*   "result"                       the ServicePtr returned by init()
ServiceHandles == {"info.service", "map.service", "result"}
LibraryHandles == {"library", "info.library", "map.library"}

\* ServiceInfo declares `service` before `library`; its implicit destructor
\* releases the members in reverse order of declaration.
ServiceInfoDtor == <<"info.library", "info.service">>

\* Releases performed for service s, in program order, of the handles in hs
\* that are not null.
Releases(hs, s, held) ==
    LET nonNull(h) == h \in held
        live == SelectSeq(hs, nonNull)
    IN  [i \in 1..Len(live) |-> [h |-> live[i], svc |-> s]]

InstanceAlive(s) == s \in instMade /\ instRefs[s] # {}
InstanceReleased(s) == s \in instMade /\ instRefs[s] = {}
LibraryLoaded(s) == s \in libMade /\ libRefs[s] # {}
LibraryUnloaded(s) == s \in libMade /\ libRefs[s] = {}

\* ------------------------------------------------------------------ strings
ServiceName(s) == ToString(s)
EntryPoint(s) == "lib" \o ToString(s) \o ":create"

Call(op, s, res, kind) == [op |-> op, svc |-> s, res |-> res, kind |-> kind]

\* The composition of a property set is not in progress.
ComposeIdle ==
    /\ options = <<>>
    /\ args = <<>>
    /\ argv = <<>>
    /\ serviceArgs = <<>>
    /\ serviceProperties = <<>>
    /\ ipc = "idle"

\* The separation of an entry point from its arguments is not in progress.
TokenIdle ==
    /\ value = <<>>
    /\ entryPoint = <<>>
    /\ runArgs = <<>>
    /\ beg = 0
    /\ tpc = "idle"

\* No thread uses the reference-counted object.
SharedIdle ==
    /\ ref = 0
    /\ holds = [t \in Threads |-> 0]
    /\ hpc = [t \in Threads |-> "off"]
    /\ seen = [t \in Threads |-> 0]
    /\ everHeld = FALSE
    /\ deleted = 0
    /\ refAssertFailed = FALSE

\* -------------------------------------------------------------------- Init
Init ==
    /\ cfg \in SUBSET Names
    /\ bundleName \in {"", "MyBundle"}
    /\ pc = "adapter"
    /\ p = END
    /\ r = END
    /\ sr = END
    /\ from = "none"
    /\ services = {}
    /\ instRefs = [s \in Names |-> {}]
    /\ libRefs = [s \in Names |-> {}]
    /\ instMade = {}
    /\ libMade = {}
    /\ unwind = <<>>
    /\ stopping = END
    /\ exc = NoEx
    /\ raisedAt = "none"
    /\ calls = <<>>
    /\ logged = <<>>
    /\ stdout = <<>>
    /\ adapterActive = FALSE
    /\ shutdownFlag = FALSE
    /\ cl = [c \in Clients |-> "idle"]
    /\ stopAllCount = 0
    /\ entry = {}
    /\ assertFailed = FALSE
    /\ ret = <<>>
    /\ ComposeIdle
    /\ TokenIdle
    /\ SharedIdle

\* ------------------------------------------------- run(): raising, handlers
\* An exception raised inside the try block of run() reaches the handler that
\* matches it; one that is not an Ice::Exception leaves run().
HandlerOf(ex) ==
    CASE ex.kind = "Failure" -> "catchFailure"
      [] ex.kind = "Exception" -> "catchException"
      [] OTHER -> "escaped"

\* The releases that follow the raising of ex, given the releases seq of the
\* destructors on the way to the handler.  When no handler of run() matches,
\* the destructors run if a caller catches the exception; if none does,
\* std::terminate() is called and whether the stack is unwound first is
\* implementation-defined.
Unwinding(ex, seq) ==
    IF HandlerOf(ex) = "escaped" THEN {seq, <<>>} ELSE {seq}

\* stopAll() is entered from call site `site`.
EnterStopAll(site) ==
    /\ pc' = "stopAll"
    /\ from' = site
    /\ sr' = MapBegin(services)
    /\ stopAllCount' = stopAllCount + 1
    /\ entry' = services

\* run(): creation of the adapter and registration of the manager.
CreateAdapter ==
    /\ pc = "adapter"
    /\ unwind = <<>>
    /\ \E ex \in RuntimeOutcomes :
          IF ex = NoEx
          THEN /\ pc' = "init"
               /\ p' = MapBegin(cfg)
               /\ UNCHANGED <<exc, raisedAt>>
          ELSE /\ pc' = HandlerOf(ex)
               /\ exc' = ex
               /\ raisedAt' = "adapter"
               /\ UNCHANGED p
    /\ UNCHANGED <<cfg, bundleName, r, sr, from, services, instRefs, libRefs,
                   instMade, libMade, unwind, stopping, calls, logged, stdout,
                   adapterActive, shutdownFlag, cl, stopAllCount, entry,
                   assertFailed, ret>>
    /\ UNCHANGED otherVars

\* ------------------------------------------------------------------ init()
\* Reasons of the FailureException raised by init().
LoadReason(s, msg) ==
    "ServiceManager: unable to load entry point `" \o EntryPoint(s) \o "'"
        \o (IF msg # "" THEN ": " \o msg ELSE "")

\* The factory call: every Ice::Exception and every other exception is
\* replaced by a FailureException.
FactoryRaise(s, ex) ==
    IF ex.kind \in {"Failure", "Exception"}
    THEN FailureException("ServiceManager: exception in entry point `"
                          \o EntryPoint(s) \o "': " \o ex.ice_name)
    ELSE FailureException("ServiceManager: unknown exception in entry point `"
                          \o EntryPoint(s) \o "'")

\* Service::init(): a FailureException is rethrown, another Ice::Exception is
\* replaced by a FailureException, anything else matches no handler.
InitRaise(s, ex) ==
    CASE ex.kind = "Failure" -> ex
      [] ex.kind = "Exception" ->
            FailureException("ServiceManager: exception while initializing service "
                             \o ServiceName(s) \o ": " \o ex.ice_name)
      [] OTHER -> ex

\* init() fails for service s with exception e (as it leaves init()), at
\* stage st; the handles in `held` are set at that point and the locals are
\* destroyed in reverse order of construction: info, then library.
InitFails(s, st, kind, e, iHeld, lHeld, loaded, made) ==
    /\ calls' = Append(calls, Call("init", s, st, kind))
    /\ instRefs' = [instRefs EXCEPT ![s] = iHeld]
    /\ libRefs' = [libRefs EXCEPT ![s] = lHeld]
    /\ libMade' = IF loaded THEN libMade \cup {s} ELSE libMade
    /\ instMade' = IF made THEN instMade \cup {s} ELSE instMade
    /\ unwind' \in Unwinding(e, Releases(ServiceInfoDtor \o <<"library">>, s,
                                          iHeld \cup lHeld))
    /\ exc' = e
    /\ raisedAt' = "init"
    /\ pc' = HandlerOf(e)
    /\ UNCHANGED <<p, services>>

\* init() succeeds for service s: the record is stored in _services, the
\* instance is returned, the locals are destroyed and the caller drops the
\* returned handle.
InitSucceeds(s) ==
    /\ calls' = Append(calls, Call("init", s, "ok", "none"))
    /\ instRefs' = [instRefs EXCEPT ![s] = {"info.service", "map.service", "result"}]
    /\ libRefs' = [libRefs EXCEPT ![s] = {"library", "info.library", "map.library"}]
    /\ libMade' = libMade \cup {s}
    /\ instMade' = instMade \cup {s}
    /\ services' = services \cup {s}
    /\ unwind' = Releases(ServiceInfoDtor \o <<"library", "result">>, s,
                          ServiceHandles \cup LibraryHandles)
    /\ p' = MapNext(cfg, p)
    /\ UNCHANGED <<exc, raisedAt, pc>>

\* run(): one iteration of the loop over the "IceBox.Service." properties,
\* with its call of init().
InitService ==
    /\ pc = "init"
    /\ unwind = <<>>
    /\ p # END
    /\ \/ \E msg \in {"", "cannot open"} :
            InitFails(p, "load", "Failure", FailureException(LoadReason(p, msg)),
                      {}, {"library"}, FALSE, FALSE)
       \/ \E ex \in ServiceOutcomes \ {NoEx} :
            InitFails(p, "factory", ex.kind, FactoryRaise(p, ex),
                      {}, {"library"}, TRUE, FALSE)
       \/ \E ex \in ServiceOutcomes \ {NoEx} :
            InitFails(p, "init", ex.kind, InitRaise(p, ex),
                      {"info.service"}, {"library"}, TRUE, TRUE)
       \/ InitSucceeds(p)
    /\ UNCHANGED <<cfg, bundleName, r, sr, from, stopping, logged, stdout,
                   adapterActive, shutdownFlag, cl, stopAllCount, entry,
                   assertFailed, ret>>
    /\ UNCHANGED otherVars

\* Variant of InitDone: the init loop may be left before its last iteration.
InitDoneEarly ==
    /\ pc = "init"
    /\ unwind = <<>>
    /\ pc' = "start"
    /\ r' = MapBegin(services)
    /\ UNCHANGED <<cfg, bundleName, p, sr, from, services, instRefs, libRefs,
                   instMade, libMade, unwind, stopping, exc, raisedAt, calls,
                   logged, stdout, adapterActive, shutdownFlag, cl, stopAllCount,
                   entry, assertFailed, ret>>
    /\ UNCHANGED otherVars

\* Variant of InitDone: the adapter is activated before the start loop.
InitDoneActivates ==
    /\ pc = "init"
    /\ unwind = <<>>
    /\ p = END
    /\ pc' = "start"
    /\ r' = MapBegin(services)
    /\ adapterActive' = TRUE
    /\ UNCHANGED <<cfg, bundleName, p, sr, from, services, instRefs, libRefs,
                   instMade, libMade, unwind, stopping, exc, raisedAt, calls,
                   logged, stdout, shutdownFlag, cl, stopAllCount,
                   entry, assertFailed, ret>>
    /\ UNCHANGED otherVars

\* run(): the init loop is over; the start loop begins.
InitDone ==
    /\ pc = "init"
    /\ unwind = <<>>
    /\ p = END
    /\ pc' = "start"
    /\ r' = MapBegin(services)
    /\ UNCHANGED <<cfg, bundleName, p, sr, from, services, instRefs, libRefs,
                   instMade, libMade, unwind, stopping, exc, raisedAt, calls, logged,
                   stdout, adapterActive, shutdownFlag, cl, stopAllCount, entry,
                   assertFailed, ret>>
    /\ UNCHANGED otherVars

\* ----------------------------------------------------------- run(): start
\* Service::start(): a FailureException is rethrown, another Ice::Exception is
\* replaced by a FailureException, anything else matches no handler.
StartRaise(s, ex) ==
    CASE ex.kind = "Failure" -> ex
      [] ex.kind = "Exception" ->
            FailureException("ServiceManager: exception in start for service "
                             \o ServiceName(s) \o ": " \o ex.ice_name)
      [] OTHER -> ex

\* run(): one iteration of the start loop.
StartService ==
    /\ pc = "start"
    /\ unwind = <<>>
    /\ r # END
    /\ \E ex \in ServiceOutcomes :
          IF ex = NoEx
          THEN /\ calls' = Append(calls, Call("start", r, "ok", "none"))
               /\ r' = MapNext(services, r)
               /\ UNCHANGED <<pc, exc, raisedAt>>
          ELSE /\ calls' = Append(calls, Call("start", r, "fail", ex.kind))
               /\ exc' = StartRaise(r, ex)
               /\ raisedAt' = "start"
               /\ pc' = HandlerOf(StartRaise(r, ex))
               /\ UNCHANGED r
    /\ UNCHANGED <<cfg, bundleName, p, sr, from, services, instRefs, libRefs,
                   instMade, libMade, unwind, stopping, logged, stdout,
                   adapterActive, shutdownFlag, cl, stopAllCount, entry,
                   assertFailed, ret>>
    /\ UNCHANGED otherVars

\* Variant of ReadyOutput: the line is printed whatever the property holds.
ReadyOutputAlways(bundle) == <<bundle \o " ready">>

\* run(): what is written to cout for the value of IceBox.PrintServicesReady.
ReadyOutput(bundle) ==
    IF bundle # "" THEN <<bundle \o " ready">> ELSE <<>>

\* run(): the start loop is over; "<bundleName> ready" is printed when the
\* property IceBox.PrintServicesReady is not empty.
StartDone ==
    /\ pc = "start"
    /\ unwind = <<>>
    /\ r = END
    /\ stdout' = stdout \o ReadyOutput(bundleName)
    /\ pc' = "activate"
    /\ UNCHANGED <<cfg, bundleName, p, r, sr, from, services, instRefs,
                   libRefs, instMade, libMade, unwind, stopping, exc, raisedAt, calls,
                   logged, adapterActive, shutdownFlag, cl, stopAllCount, entry,
                   assertFailed, ret>>
    /\ UNCHANGED otherVars

\* run(): adapter->activate().
Activate ==
    /\ pc = "activate"
    /\ unwind = <<>>
    /\ \E ex \in RuntimeOutcomes :
          IF ex = NoEx
          THEN /\ adapterActive' = TRUE
               /\ pc' = "wait"
               /\ UNCHANGED <<exc, raisedAt>>
          ELSE /\ exc' = ex
               /\ raisedAt' = "activate"
               /\ pc' = HandlerOf(ex)
               /\ UNCHANGED adapterActive
    /\ UNCHANGED <<cfg, bundleName, p, r, sr, from, services, instRefs,
                   libRefs, instMade, libMade, unwind, stopping, calls,
                   logged, stdout, shutdownFlag, cl, stopAllCount, entry,
                   assertFailed, ret>>
    /\ UNCHANGED otherVars

\* The communicator has been shut down: waitForShutdown() may return.
ShutdownSignalled == shutdownFlag

\* run(): _communicator->waitForShutdown() returns once the communicator has
\* been shut down, and stopAll() is called; or it raises.
WaitForShutdown ==
    /\ pc = "wait"
    /\ unwind = <<>>
    /\ \/ /\ ShutdownSignalled
          /\ calls' = Append(calls, Call("waitForShutdown", END, "ok", "none"))
          /\ EnterStopAll("try")
          /\ UNCHANGED <<exc, raisedAt>>
       \/ /\ calls' = Append(calls, Call("waitForShutdown", END, "fail", "Exception"))
          /\ exc' = IceException
          /\ raisedAt' = "wait"
          /\ pc' = HandlerOf(IceException)
          /\ UNCHANGED <<from, sr, stopAllCount, entry>>
    /\ UNCHANGED <<cfg, bundleName, p, r, services, instRefs, libRefs,
                   instMade, libMade, unwind, stopping, logged, stdout,
                   adapterActive, shutdownFlag, cl, assertFailed, ret>>
    /\ UNCHANGED otherVars

\* run(): catch(const FailureException& ex).
CatchFailure ==
    /\ pc = "catchFailure"
    /\ unwind = <<>>
    /\ logged' = Append(logged, exc.reason)
    /\ EnterStopAll("catchFailure")
    /\ UNCHANGED <<cfg, bundleName, p, r, services, instRefs, libRefs,
                   instMade, libMade, unwind, stopping, exc, raisedAt, calls, stdout,
                   adapterActive, shutdownFlag, cl, assertFailed, ret>>
    /\ UNCHANGED otherVars

\* run(): catch(const Exception& ex).
CatchException ==
    /\ pc = "catchException"
    /\ unwind = <<>>
    /\ logged' = Append(logged, "ServiceManager: " \o exc.ice_name)
    /\ EnterStopAll("catchException")
    /\ UNCHANGED <<cfg, bundleName, p, r, services, instRefs, libRefs,
                   instMade, libMade, unwind, stopping, exc, raisedAt, calls, stdout,
                   adapterActive, shutdownFlag, cl, assertFailed, ret>>
    /\ UNCHANGED otherVars

\* ------------------------------------------------------- stop(), stopAll()
\* stop(): order in which the local `info` gives up its handles.  Both the
\* normal path and the catch(const Exception&) path clear info.service and
\* then info.library; an exception that matches no handler leaves the
\* release to the destructor of `info`.
StopReleaseOrder(ex) ==
    IF ex.kind = "Unknown" THEN ServiceInfoDtor
    ELSE <<"info.service", "info.library">>

\* Variant of Erase: the record stays in _services.
EraseNothing(S, s) == S

\* stop(): _services.erase(r).
Erase(S, s) == S \ {s}

\* Variant of StopAllAdvance: the iterator is advanced after stop() has
\* erased the element it designates, so it is left on the erased element.
StopAllNoAdvance(S, x) == x

\* Variant of StopAllAdvance: the records are visited from the back.
StopAllAdvanceFromBack(S, x) ==
    IF S \ {x} = {} THEN END
    ELSE CHOOSE y \in S \ {x} : \A z \in S \ {x} : z <= y

\* stopAll(): `r++` in `stop((*r++).first)`, evaluated before stop() runs:
\* the iterator moves to the record after x in _services.
StopAllAdvance(S, x) == MapNext(S, x)

\* stopAll(): `stop((*r++).first)` reads the name under the iterator and
\* advances the iterator before stop() runs.  stop(): the record is looked
\* up, copied into `info`, erased from _services, and Service::stop() is
\* called.
StopBegin ==
    /\ pc = "stopAll"
    /\ unwind = <<>>
    /\ sr # END
    /\ sr' = StopAllAdvance(services, sr)
    /\ IF sr \in services
       THEN /\ instRefs' = [instRefs EXCEPT
                              ![sr] = (@ \cup {"info.service"}) \ {"map.service"}]
            /\ libRefs' = [libRefs EXCEPT
                              ![sr] = (@ \cup {"info.library"}) \ {"map.library"}]
            /\ services' = Erase(services, sr)
            /\ stopping' = sr
            /\ calls' = Append(calls, Call("stop", sr, "running", "none"))
            /\ pc' = "stopping"
            /\ UNCHANGED assertFailed
       ELSE /\ assertFailed' = TRUE
            /\ pc' = "aborted"
            /\ UNCHANGED <<instRefs, libRefs, services, stopping, calls>>
    /\ UNCHANGED <<cfg, bundleName, p, r, from, instMade, libMade, unwind,
                   exc, raisedAt, logged, stdout, adapterActive, shutdownFlag,
                   cl, stopAllCount, entry, ret>>
    /\ UNCHANGED otherVars

\* stop(): Service::stop() returns or raises.  An Ice::Exception is replaced
\* by a FailureException, which stopAll() catches and logs; anything else
\* leaves stop(), stopAll() and run().
StopEnd ==
    /\ pc = "stopping"
    /\ unwind = <<>>
    /\ \E ex \in ServiceOutcomes :
          /\ calls' = [calls EXCEPT ![Len(calls)] =
                          Call("stop", stopping,
                               IF ex = NoEx THEN "ok" ELSE "fail", ex.kind)]
          /\ unwind' \in Unwinding(ex, Releases(StopReleaseOrder(ex), stopping,
                                                 {"info.service", "info.library"}))
          /\ CASE ex.kind = "none" ->
                    /\ pc' = "stopAll"
                    /\ UNCHANGED <<logged, exc, raisedAt>>
               [] ex.kind \in {"Failure", "Exception"} ->
                    /\ logged' = Append(logged,
                          "ServiceManager: exception in stop for service "
                          \o ServiceName(stopping) \o ": " \o ex.ice_name)
                    /\ pc' = "stopAll"
                    /\ UNCHANGED <<exc, raisedAt>>
               [] OTHER ->
                    /\ exc' = ex
                    /\ raisedAt' = "stop"
                    /\ pc' = "escaped"
                    /\ UNCHANGED logged
    /\ stopping' = END
    /\ UNCHANGED <<cfg, bundleName, p, r, sr, from, services, instRefs,
                   libRefs, instMade, libMade, stdout, adapterActive,
                   shutdownFlag, cl, stopAllCount, entry, assertFailed, ret>>
    /\ UNCHANGED otherVars

\* Variant of ExitCode: run() returns EXIT_SUCCESS from its handlers too.
ExitCodeAlwaysSuccess(site) == EXIT_SUCCESS

\* Value returned by run() after the stopAll() called from `site`.
ExitCode(site) == IF site = "try" THEN EXIT_SUCCESS ELSE EXIT_FAILURE

\* stopAll(): the loop is over, assert(_services.empty()) is evaluated (a
\* build with NDEBUG goes on where another build aborts), and run() returns.
StopAllDone ==
    /\ pc = "stopAll"
    /\ unwind = <<>>
    /\ sr = END
    /\ \E ndebug \in BOOLEAN :
          IF services = {} \/ ndebug
          THEN /\ ret' = <<ExitCode(from)>>
               /\ pc' = "done"
               /\ assertFailed' = (assertFailed \/ services # {})
          ELSE /\ assertFailed' = TRUE
               /\ pc' = "aborted"
               /\ UNCHANGED ret
    /\ UNCHANGED <<cfg, bundleName, p, r, sr, from, services, instRefs,
                   libRefs, instMade, libMade, unwind, stopping, exc, raisedAt, calls,
                   logged, stdout, adapterActive, shutdownFlag, cl,
                   stopAllCount, entry>>
    /\ UNCHANGED otherVars

\* The next pending release of a handle: the object is destroyed when its
\* last handle goes.
Release ==
    /\ unwind # <<>>
    /\ LET h == Head(unwind).h
           s == Head(unwind).svc
       IN  /\ instRefs' = [instRefs EXCEPT ![s] = @ \ {h}]
           /\ libRefs' = [libRefs EXCEPT ![s] = @ \ {h}]
    /\ unwind' = Tail(unwind)
    /\ UNCHANGED <<cfg, bundleName, pc, p, r, sr, from, services, instMade,
                   libMade, stopping, exc, raisedAt, calls, logged, stdout,
                   adapterActive, shutdownFlag, cl, stopAllCount, entry,
                   assertFailed, ret>>
    /\ UNCHANGED otherVars

\* ---------------------------------------------------------------- shutdown
\* The runtime dispatches a remote shutdown() request to the manager.
Dispatch(c) ==
    /\ cl[c] = "idle"
    /\ adapterActive
    /\ cl' = [cl EXCEPT ![c] = "dispatched"]
    /\ UNCHANGED <<cfg, bundleName, pc, p, r, sr, from, services, instRefs,
                   libRefs, instMade, libMade, unwind, stopping, exc, raisedAt, calls,
                   logged, stdout, adapterActive, shutdownFlag, stopAllCount, entry,
                   assertFailed, ret>>
    /\ UNCHANGED otherVars

\* Variant of Shutdown: shutdown() stops the services itself, on the
\* dispatching thread, before it shuts the communicator down.
ShutdownStopsAll(c) ==
    /\ cl[c] = "dispatched"
    /\ stopping = END
    /\ unwind = <<>>
    /\ shutdownFlag' = TRUE
    /\ cl' = [cl EXCEPT ![c] = "returned"]
    /\ stopAllCount' = stopAllCount + 1
    /\ entry' = services
    /\ services' = {}
    /\ calls' = calls \o [i \in 1..Cardinality(services) |->
                            Call("stop", MapOrder(services)[i], "ok", "none")]
    /\ instRefs' = [s \in Names |-> IF s \in services THEN {} ELSE instRefs[s]]
    /\ libRefs' = [s \in Names |-> IF s \in services THEN {} ELSE libRefs[s]]
    /\ UNCHANGED <<cfg, bundleName, pc, p, r, sr, from, instMade, libMade,
                   unwind, stopping, exc, raisedAt, logged, stdout,
                   adapterActive, assertFailed, ret>>
    /\ UNCHANGED otherVars

\* ServiceManagerI::shutdown(): _communicator->shutdown().
Shutdown(c) ==
    /\ cl[c] = "dispatched"
    /\ shutdownFlag' = TRUE
    /\ cl' = [cl EXCEPT ![c] = "returned"]
    /\ UNCHANGED <<cfg, bundleName, pc, p, r, sr, from, services, instRefs,
                   libRefs, instMade, libMade, unwind, stopping, exc, raisedAt, calls,
                   logged, stdout, adapterActive, stopAllCount, entry, assertFailed,
                   ret>>
    /\ UNCHANGED otherVars

\* ------------------------------------------------------------ specification
Next ==
    \/ CreateAdapter
    \/ InitService
    \/ InitDone
    \/ StartService
    \/ StartDone
    \/ Activate
    \/ WaitForShutdown
    \/ CatchFailure
    \/ CatchException
    \/ StopBegin
    \/ StopEnd
    \/ StopAllDone
    \/ Release
    \/ \E c \in Clients : Dispatch(c)
    \/ \E c \in Clients : Shutdown(c)

Spec == Init /\ [][Next]_vars

\* ------------------------------------------- init(): the service property set
\* An option "--<prefix>.<key>=<value>".
Option(prefix, key, val) == [prefix |-> prefix, key |-> key, value |-> val]

\* The service whose property set is composed, and the options that the
\* server configuration, the service descriptor and the server command line
\* are drawn from.
Composed == 1
OptionUniverse ==
    {Option(ServiceName(1), "K", "a"), Option(ServiceName(1), "K", "b"),
     Option(ServiceName(2), "K", "a"), Option("Ice", "K", "a")}

RECURSIVE SeqsUpTo(_, _)
SeqsUpTo(U, n) ==
    IF n = 0 THEN {<<>>}
    ELSE LET shorter == SeqsUpTo(U, n - 1)
         IN  shorter \cup {Append(q, u) : q \in shorter, u \in U}

\* `opt.find("--" + service + ".") == 0`
HasPrefix(opt, prefix) == opt.prefix = prefix

\* Variant of ComposeArgs: the server arguments come first.
ComposeArgsServerFirst(service, opts, as, av) ==
    LET mine(o) == HasPrefix(o, ServiceName(service))
    IN  SelectSeq(av, mine) \o SelectSeq(opts, mine) \o as

\* init(): serviceArgs is made of the options of the server property set
\* that start with "--<service>.", the arguments of the service, and the
\* server arguments that start with "--<service>.", in this order.
ComposeArgs(service, opts, as, av) ==
    LET mine(o) == HasPrefix(o, ServiceName(service))
    IN  SelectSeq(opts, mine) \o as \o SelectSeq(av, mine)

\* Properties::parseCommandLineOptions(prefix, options): the options that
\* start with "--<prefix>." are stored in the property set in the order of
\* the sequence, a later value replacing an earlier one of the same key.
RECURSIVE ParseInto(_, _, _)
ParseInto(props, prefix, opts) ==
    IF opts = <<>> THEN props
    ELSE LET o == Head(opts)
             k == <<o.prefix, o.key>>
             others == SelectSeq(props, LAMBDA e : e.key # k)
         IN  ParseInto(IF HasPrefix(o, prefix)
                       THEN Append(others, [key |-> k, value |-> o.value])
                       ELSE props,
                       prefix, Tail(opts))

\* Properties::parseCommandLineOptions(prefix, options): the options left.
Residual(prefix, opts) == SelectSeq(opts, LAMBDA o : ~HasPrefix(o, prefix))

\* Properties::getProperty(key): the value, or "" when the key is not set.
GetProperty(props, key) ==
    IF \E i \in DOMAIN props : props[i].key = key
    THEN (CHOOSE e \in {props[i] : i \in DOMAIN props} : e.key = key).value
    ELSE ""

\* The main state machine is not running.
ServiceManagerIdle ==
    /\ cfg = {}
    /\ bundleName = ""
    /\ pc = "off"
    /\ p = END
    /\ r = END
    /\ sr = END
    /\ from = "none"
    /\ services = {}
    /\ instRefs = [s \in Names |-> {}]
    /\ libRefs = [s \in Names |-> {}]
    /\ instMade = {}
    /\ libMade = {}
    /\ unwind = <<>>
    /\ stopping = END
    /\ exc = NoEx
    /\ raisedAt = "none"
    /\ calls = <<>>
    /\ logged = <<>>
    /\ stdout = <<>>
    /\ adapterActive = FALSE
    /\ shutdownFlag = FALSE
    /\ cl = [c \in Clients |-> "idle"]
    /\ stopAllCount = 0
    /\ entry = {}
    /\ assertFailed = FALSE
    /\ ret = <<>>

managerVars == <<cfg, bundleName, pc, p, r, sr, from, services, instRefs,
                 libRefs, instMade, libMade, unwind, stopping, exc, raisedAt,
                 calls, logged, stdout, adapterActive, shutdownFlag, cl,
                 stopAllCount, entry, assertFailed, ret>>

ComposeInit ==
    /\ ServiceManagerIdle
    /\ TokenIdle
    /\ SharedIdle
    /\ options \in SeqsUpTo(OptionUniverse, MaxOptions)
    /\ args \in SeqsUpTo(OptionUniverse, MaxOptions)
    /\ argv \in SeqsUpTo(OptionUniverse, MaxOptions)
    /\ serviceArgs = <<>>
    /\ serviceProperties = <<>>
    /\ ipc = "compose"

\* init(): the three loops that fill serviceArgs.
ComposeServiceArgs ==
    /\ ipc = "compose"
    /\ serviceArgs' = ComposeArgs(Composed, options, args, argv)
    /\ ipc' = "create"
    /\ UNCHANGED <<options, args, argv, serviceProperties, managerVars,
                   tokenVars, sharedVars>>

\* init(): createProperties(serviceArgs), then
\* serviceProperties->parseCommandLineOptions("Ice", serviceArgs).
ParseIceOptions ==
    /\ ipc = "create"
    /\ serviceProperties' = ParseInto(<<>>, "Ice", serviceArgs)
    /\ serviceArgs' = Residual("Ice", serviceArgs)
    /\ ipc' = "parse"
    /\ UNCHANGED <<options, args, argv, managerVars, tokenVars, sharedVars>>

\* init(): serviceProperties->parseCommandLineOptions(service, serviceArgs).
ParseServiceOptions ==
    /\ ipc = "parse"
    /\ serviceProperties' =
          ParseInto(serviceProperties, ServiceName(Composed), serviceArgs)
    /\ serviceArgs' = Residual(ServiceName(Composed), serviceArgs)
    /\ ipc' = "composed"
    /\ UNCHANGED <<options, args, argv, managerVars, tokenVars, sharedVars>>

ComposeNext ==
    \/ ComposeServiceArgs
    \/ ParseIceOptions
    \/ ParseServiceOptions

ComposeSpec == ComposeInit /\ [][ComposeNext]_vars

\* ------------------------------- run(): entry point and arguments of a service
\* The characters of a property value, and those that separate tokens.
Whitespace == {" ", "\t", "\n"}
Characters == {"a", "b"} \cup Whitespace

\* std::string::npos
NPOS == -1

\* value.find_first_of(" \t\n", start), positions counted from 0.
FindFirstOf(v, start) ==
    LET hits == {i \in start..(Len(v) - 1) : v[i + 1] \in Whitespace}
    IN  IF hits = {} THEN NPOS
        ELSE CHOOSE i \in hits : \A j \in hits : i <= j

\* value.find_first_not_of(" \t\n", start), positions counted from 0.
FindFirstNotOf(v, start) ==
    LET hits == {i \in start..(Len(v) - 1) : v[i + 1] \notin Whitespace}
    IN  IF hits = {} THEN NPOS
        ELSE CHOOSE i \in hits : \A j \in hits : i <= j

\* value.substr(pos, n) and value.substr(pos).
Substr(v, pos, n) == SubSeq(v, pos + 1, pos + n)
SubstrFrom(v, pos) == SubSeq(v, pos + 1, Len(v))

TokenInit ==
    /\ ServiceManagerIdle
    /\ ComposeIdle
    /\ SharedIdle
    /\ value \in SeqsUpTo(Characters, MaxValueLen)
    /\ entryPoint = <<>>
    /\ runArgs = <<>>
    /\ beg = NPOS
    /\ tpc = "entryPoint"

\* run(): the entry point is the value up to its first whitespace character,
\* the whole value when it has none.
SeparateEntryPoint ==
    /\ tpc = "entryPoint"
    /\ LET pos == FindFirstOf(value, 0)
       IN  IF pos = NPOS
           THEN /\ entryPoint' = value
                /\ UNCHANGED beg
           ELSE /\ entryPoint' = Substr(value, 0, pos)
                /\ beg' = FindFirstNotOf(value, pos)
    /\ tpc' = "args"
    /\ UNCHANGED <<value, runArgs, managerVars, composeVars, sharedVars>>

\* run(): one iteration of `while(beg != string::npos)`.
NextArgument ==
    /\ tpc = "args"
    /\ beg # NPOS
    /\ LET end == FindFirstOf(value, beg)
       IN  IF end = NPOS
           THEN /\ runArgs' = Append(runArgs, SubstrFrom(value, beg))
                /\ beg' = end
           ELSE /\ runArgs' = Append(runArgs, Substr(value, beg, end - beg))
                /\ beg' = FindFirstNotOf(value, end)
    /\ UNCHANGED <<value, entryPoint, tpc, managerVars, composeVars,
                   sharedVars>>

\* run(): the loop is over and init(name, entryPoint, args) is called.
CallInit ==
    /\ tpc = "args"
    /\ beg = NPOS
    /\ tpc' = "separated"
    /\ UNCHANGED <<value, entryPoint, runArgs, beg, managerVars, composeVars,
                   sharedVars>>

TokenNext ==
    \/ SeparateEntryPoint
    \/ NextArgument
    \/ CallInit

TokenSpec == TokenInit /\ [][TokenNext]_vars

\* ---------------------------------------------------------- IceUtil::Shared
\* atomic_set(v, i): the counter becomes i.
atomic_set(i) == i

\* atomic_inc(v), `lock ; incl`: the value of the counter after the
\* instruction, x being its value before.
atomic_inc(x) == x + 1

\* atomic_dec_and_test(v), `lock ; decl ; sete`: the counter after the
\* instruction and the value returned.
atomic_dec_and_test(x) == [counter |-> x - 1, result |-> (x - 1 = 0)]

\* atomic_exchange_add(i, v), `lock ; xadd`: the counter after the
\* instruction and the value returned, `tmp + i` with tmp the old counter.
atomic_exchange_add(i, x) == [counter |-> x + i, result |-> x + i]

\* Shared::Shared(): _noDelete(false); __setNoDelete is never called.
noDelete == FALSE

RECURSIVE SumUpTo(_, _)
SumUpTo(f, n) == IF n = 0 THEN 0 ELSE f[n] + SumUpTo(f, n - 1)

\* Number of references to the object that the threads hold.
Held == SumUpTo(holds, NumThreads)

\* Threads between the assert and the increment of __incRef.
Incrementing == {t \in Threads : hpc[t] = "inc"}

\* Thread t can reach the object: it holds a reference to it, or the object
\* has just been constructed and no reference to it exists yet.
Reaches(t) ==
    \/ holds[t] > 0
    \/ ~everHeld /\ \A u \in Threads : hpc[u] = "idle"

\* The object after Shared::Shared(), with every thread outside any call.
SharedInit ==
    /\ ServiceManagerIdle
    /\ ComposeIdle
    /\ TokenIdle
    /\ ref = atomic_set(0)
    /\ holds = [t \in Threads |-> 0]
    /\ hpc = [t \in Threads |-> "idle"]
    /\ seen = [t \in Threads |-> 0]
    /\ everHeld = FALSE
    /\ deleted = 0
    /\ refAssertFailed = FALSE

\* __incRef(): assert(atomic_exchange_add(0, &_ref) >= 0).
IncRefAssert(t) ==
    /\ hpc[t] = "idle"
    /\ deleted = 0
    /\ Reaches(t)
    /\ Held + Cardinality(Incrementing) < MaxRefs
    /\ LET x == atomic_exchange_add(0, ref)
       IN  /\ ref' = x.counter
           /\ seen' = [seen EXCEPT ![t] = x.result]
           /\ refAssertFailed' = (refAssertFailed \/ ~(x.result >= 0))
    /\ hpc' = [hpc EXCEPT ![t] = "inc"]
    /\ UNCHANGED <<holds, everHeld, deleted>>
    /\ UNCHANGED <<managerVars, composeVars, tokenVars>>

\* Variant of IncRefInc: the increment is a read followed by a write, the
\* value read being the one the assert saw.
IncRefIncNotAtomic(t) ==
    /\ hpc[t] = "inc"
    /\ ref' = seen[t] + 1
    /\ holds' = [holds EXCEPT ![t] = @ + 1]
    /\ everHeld' = TRUE
    /\ hpc' = [hpc EXCEPT ![t] = "idle"]
    /\ UNCHANGED <<seen, deleted, refAssertFailed>>
    /\ UNCHANGED <<managerVars, composeVars, tokenVars>>

\* __incRef(): atomic_inc(&_ref); the caller now holds one more reference.
IncRefInc(t) ==
    /\ hpc[t] = "inc"
    /\ ref' = atomic_inc(ref)
    /\ holds' = [holds EXCEPT ![t] = @ + 1]
    /\ everHeld' = TRUE
    /\ hpc' = [hpc EXCEPT ![t] = "idle"]
    /\ UNCHANGED <<seen, deleted, refAssertFailed>>
    /\ UNCHANGED <<managerVars, composeVars, tokenVars>>

\* __decRef(): assert(atomic_exchange_add(0, &_ref) > 0), called by a thread
\* for a reference it holds.
DecRefAssert(t) ==
    /\ hpc[t] = "idle"
    /\ holds[t] > 0
    /\ LET x == atomic_exchange_add(0, ref)
       IN  /\ ref' = x.counter
           /\ seen' = [seen EXCEPT ![t] = x.result]
           /\ refAssertFailed' = (refAssertFailed \/ ~(x.result > 0))
    /\ hpc' = [hpc EXCEPT ![t] = "dec"]
    /\ UNCHANGED <<holds, everHeld, deleted>>
    /\ UNCHANGED <<managerVars, composeVars, tokenVars>>

\* __decRef(): atomic_dec_and_test(&_ref) && !_noDelete; the caller has given
\* up the reference.
DecRefTest(t) ==
    /\ hpc[t] = "dec"
    /\ LET x == atomic_dec_and_test(ref)
       IN  /\ ref' = x.counter
           /\ hpc' = [hpc EXCEPT ![t] =
                         IF x.result /\ ~noDelete THEN "delete" ELSE "idle"]
    /\ holds' = [holds EXCEPT ![t] = @ - 1]
    /\ UNCHANGED <<seen, everHeld, deleted, refAssertFailed>>
    /\ UNCHANGED <<managerVars, composeVars, tokenVars>>

\* __decRef(): delete this.
DecRefDelete(t) ==
    /\ hpc[t] = "delete"
    /\ deleted' = deleted + 1
    /\ hpc' = [hpc EXCEPT ![t] = "idle"]
    /\ UNCHANGED <<ref, holds, seen, everHeld, refAssertFailed>>
    /\ UNCHANGED <<managerVars, composeVars, tokenVars>>

\* Thread t hands one of its references (a handle) to thread u.
Give(t, u) ==
    /\ t # u
    /\ hpc[t] = "idle"
    /\ hpc[u] = "idle"
    /\ holds[t] > 0
    /\ holds' = [holds EXCEPT ![t] = @ - 1, ![u] = @ + 1]
    /\ UNCHANGED <<ref, hpc, seen, everHeld, deleted, refAssertFailed>>
    /\ UNCHANGED <<managerVars, composeVars, tokenVars>>

SharedNext ==
    \/ \E t \in Threads : IncRefAssert(t)
    \/ \E t \in Threads : IncRefInc(t)
    \/ \E t \in Threads : DecRefAssert(t)
    \/ \E t \in Threads : DecRefTest(t)
    \/ \E t \in Threads : DecRefDelete(t)
    \/ \E t, u \in Threads : Give(t, u)

SharedSpec == SharedInit /\ [][SharedNext]_vars

\* run() has returned or has been left by an exception, and every pending
\* release has been executed.
Returned == pc = "done" /\ unwind = <<>>
Escaped == pc = "escaped" /\ unwind = <<>>

TypeOK ==
    /\ cfg \subseteq Names
    /\ services \subseteq cfg
    /\ pc \in {"adapter", "init", "start", "activate", "wait", "catchFailure",
               "catchException", "stopAll", "stopping", "done", "escaped",
               "aborted"}
    /\ ret \in {<<>>, <<EXIT_SUCCESS>>, <<EXIT_FAILURE>>}

\* ======================================================== properties
CallsOf(op, s) == {i \in DOMAIN calls : calls[i].op = op /\ calls[i].svc = s}
Invoked(op, s) == CallsOf(op, s) # {}
Times(op, s) == Cardinality(CallsOf(op, s))
Succeeded(op, s) == \E i \in CallsOf(op, s) : calls[i].res = "ok"
Failed(op, s) == \E i \in CallsOf(op, s) : calls[i].res \notin {"ok", "running"}

\* No call into the runtime or into a service has raised.
NoFailure ==
    /\ exc = NoEx
    /\ \A i \in DOMAIN calls : calls[i].res \in {"ok", "running"}

\* run() is over, by a return, by an exception or by an abort.
Terminated == pc \in {"done", "escaped", "aborted"} /\ unwind = <<>>

\* C1: while no operation fails, the calls made by run() are init on every
\* configured service in discovery order, then start on every service in the
\* same order, then waitForShutdown, then stop on distinct services; when
\* run() returns every service has seen exactly one init, start and stop.
C1_LifecycleOrder ==
    NoFailure =>
        LET n == Cardinality(cfg)
            ord == MapOrder(cfg)
        IN  /\ Len(calls) <= 3 * n + 1
            /\ \A i \in DOMAIN calls :
                  /\ i <= n => calls[i] = Call("init", ord[i], "ok", "none")
                  /\ (n < i /\ i <= 2 * n) =>
                         calls[i] = Call("start", ord[i - n], "ok", "none")
                  /\ i = 2 * n + 1 =>
                         calls[i] = Call("waitForShutdown", END, "ok", "none")
                  /\ i > 2 * n + 1 =>
                         /\ calls[i].op = "stop"
                         /\ calls[i].svc \in cfg
                         /\ Times("stop", calls[i].svc) = 1
            /\ Returned =>
                  /\ Len(calls) = 3 * n + 1
                  /\ \A s \in cfg : /\ Times("init", s) = 1
                                    /\ Times("start", s) = 1
                                    /\ Succeeded("stop", s)

C1_Witness ==
    /\ Returned
    /\ NoFailure
    /\ cfg = Names
    /\ ret = <<EXIT_SUCCESS>>

\* C2: once start of a service k has failed, stop is invoked on no service
\* from k on, no later service is started, and when run() is over stop has
\* been invoked on every service before k.
C2_StartFailureStopsOnlyEarlier ==
    \A k \in cfg : Failed("start", k) =>
        /\ \A s \in cfg : s >= k => ~Invoked("stop", s)
        /\ \A s \in cfg : s > k => ~Invoked("start", s)
        /\ Terminated => \A s \in cfg : s < k => Invoked("stop", s)

\* C3: once init of a service k has failed, neither start nor stop is invoked
\* on a service from k on, no later service is initialized, no service is
\* started, and when run() is over stop has been invoked exactly once on every
\* service before k.
C3_InitFailureStopsEarlier ==
    \A k \in cfg : Failed("init", k) =>
        /\ \A s \in cfg : s >= k => ~Invoked("start", s) /\ ~Invoked("stop", s)
        /\ \A s \in cfg : s > k => ~Invoked("init", s)
        /\ \A s \in cfg : ~Invoked("start", s)
        /\ \A s \in cfg : s < k => Times("stop", s) <= 1
        /\ Terminated => \A s \in cfg : s < k => Times("stop", s) = 1

\* C4: when run() is over it has invoked stopAll, every service whose start
\* succeeded has had stop invoked, and after a failure raised by the adapter
\* creation, by an init or by a start a reason is logged and run() has
\* returned EXIT_FAILURE.
C4_EveryFailureStopsAll ==
    Terminated =>
        /\ stopAllCount >= 1
        /\ \A s \in cfg : Succeeded("start", s) => Invoked("stop", s)
        /\ raisedAt \in {"adapter", "init", "start"} =>
              /\ logged # <<>>
              /\ ret = <<EXIT_FAILURE>>

\* C5: when run() is over after a call of stopAll, stop has been invoked
\* exactly once on every service that was in _services when stopAll was
\* entered, no failure of a stop has left stopAll, and _services is empty.
C5_StopAllStopsEverything ==
    (Terminated /\ stopAllCount >= 1) =>
        /\ \A s \in entry : Times("stop", s) = 1
        /\ raisedAt # "stop"
        /\ services = {}

\* C6: in no state is the library of a service unloaded while the instance of
\* the service is alive.
C6_InstanceReleasedBeforeLibrary ==
    \A s \in Names : LibraryUnloaded(s) => ~InstanceAlive(s)

\* C7 (as stated): when run() returns, it returns EXIT_SUCCESS exactly when
\* no operation has failed, a stop during the final stopAll included.
C7_NonZeroOnAnyFailure ==
    Returned => (ret = <<EXIT_SUCCESS>> <=> NoFailure)

\* C7 (amended): when run() returns, it returns EXIT_FAILURE exactly when an
\* exception has reached one of its handlers; a stop that fails during
\* stopAll is logged and leaves the return value as it is.
C7_ExitCodeIgnoresStopFailures ==
    Returned =>
        /\ ret = <<EXIT_SUCCESS>> <=> exc = NoEx
        /\ ret = <<EXIT_FAILURE>> <=> exc # NoEx
        /\ \A s \in cfg : Failed("stop", s) => Len(logged) >= 1

C7_Witness ==
    /\ Returned
    /\ ret = <<EXIT_SUCCESS>>
    /\ \E s \in cfg : Failed("stop", s)

\* C8: when run() has returned, _services is empty.
C8_RegistryEmptyOnReturn ==
    pc = "done" => services = {}

C8_Witness ==
    /\ Returned
    /\ Cardinality(entry) >= 2
    /\ \E s \in entry : Failed("stop", s)
    /\ \E s \in entry : Succeeded("stop", s)

\* C9: whatever the number of shutdown() invocations and their interleaving
\* with the lifecycle thread, an invocation that has been dispatched can
\* complete, stopAll is invoked at most once (exactly once when run() has
\* returned), and Service::stop() is invoked at most once per service.
C9_ShutdownIdempotent ==
    /\ \A c \in Clients : cl[c] = "dispatched" => ENABLED Shutdown(c)
    /\ stopAllCount <= 1
    /\ \A s \in Names : Times("stop", s) <= 1
    /\ (Returned /\ \E c \in Clients : cl[c] = "returned") => stopAllCount = 1

C9_Witness ==
    /\ Returned
    /\ \A c \in Clients : cl[c] = "returned"
    /\ Cardinality(entry) >= 2
    /\ \A s \in entry : Times("stop", s) = 1

\* C10: the adapter is active, and a shutdown() has been dispatched or has
\* shut the communicator down, only when start has succeeded on every
\* configured service; no service in _services is then initialized but not
\* started.
C10_ActivateAfterStart ==
    (adapterActive \/ shutdownFlag \/ \E c \in Clients : cl[c] # "idle") =>
        /\ \A s \in cfg : Succeeded("start", s)
        /\ \A s \in services : Succeeded("init", s) /\ Succeeded("start", s)

C10_Witness ==
    /\ \E c \in Clients : cl[c] = "dispatched"
    /\ pc = "wait"
    /\ cfg = Names

\* C11: at most one line is written to cout, and it is "<value> ready" for a
\* non-empty IceBox.PrintServicesReady; it is written only when init and
\* start have succeeded on every configured service, and, when the property
\* is not empty, it has been written by the time the adapter is activated.
C11_ReadyPrintedOnce ==
    /\ Len(stdout) <= 1
    /\ stdout # <<>> =>
          /\ bundleName # ""
          /\ stdout = <<bundleName \o " ready">>
          /\ \A s \in cfg : Succeeded("init", s) /\ Succeeded("start", s)
          /\ \A s \in cfg : ~Failed("init", s) /\ ~Failed("start", s)
    /\ bundleName = "" => stdout = <<>>
    /\ raisedAt \in {"adapter", "init", "start"} => stdout = <<>>
    /\ (bundleName # "" /\ (pc \in {"activate", "wait"} \/ adapterActive)) =>
          Len(stdout) = 1
    /\ (stdout = <<>> /\ bundleName # "") => ~adapterActive

C11_Witness ==
    /\ stdout = <<"MyBundle ready">>
    /\ pc = "activate"
    /\ ~adapterActive
    /\ cfg = Names

\* The value that the last option of seq for key k of service s sets, as a
\* one-element sequence; empty when no option of seq sets the key.
LastSetting(seq, s, k) ==
    LET hits == {i \in DOMAIN seq :
                    seq[i].prefix = ServiceName(s) /\ seq[i].key = k}
    IN  IF hits = {} THEN <<>>
        ELSE <<seq[CHOOSE i \in hits : \A j \in hits : j <= i].value>>

\* C12: once the property set of a service is composed, the value of a key
\* of the service is the one set by the server command line if it sets the
\* key, else the one set by the arguments of the service descriptor if they
\* set it, else the one of the server configuration, else it is not set.
C12_Precedence ==
    ipc = "composed" =>
        LET k == "K"
            cli == LastSetting(argv, Composed, k)
            desc == LastSetting(args, Composed, k)
            conf == LastSetting(options, Composed, k)
            expected == IF cli # <<>> THEN cli[1]
                        ELSE IF desc # <<>> THEN desc[1]
                        ELSE IF conf # <<>> THEN conf[1]
                        ELSE ""
        IN  GetProperty(serviceProperties, <<ServiceName(Composed), k>>)
                = expected

C12_Witness ==
    /\ ipc = "composed"
    /\ LastSetting(options, Composed, "K") = <<"a">>
    /\ LastSetting(args, Composed, "K") = <<"a">>
    /\ LastSetting(argv, Composed, "K") = <<"b">>
    /\ GetProperty(serviceProperties, <<ServiceName(Composed), "K">>) = "b"

\* The tokens of v: its maximal runs of characters that are not whitespace,
\* from left to right.
Tokens(v) ==
    LET starts == {i \in 1..Len(v) :
                      v[i] \notin Whitespace /\ (i = 1 \/ v[i - 1] \in Whitespace)}
        last(i) == CHOOSE j \in i..Len(v) :
                      /\ \A k \in i..j : v[k] \notin Whitespace
                      /\ (j = Len(v) \/ v[j + 1] \in Whitespace)
        nth(k) == CHOOSE i \in starts : Cardinality({j \in starts : j <= i}) = k
    IN  [k \in 1..Cardinality(starts) |-> SubSeq(v, nth(k), last(nth(k)))]

\* C13: once a value is separated, the entry point is the first token of the
\* value and the arguments are its other tokens, in order (both are empty for
\* a value without a token); no argument is empty.
C13_TokenizationIsSplit ==
    tpc = "separated" =>
        /\ <<entryPoint>> \o runArgs =
              (IF Tokens(value) = <<>> THEN <<<<>>>> ELSE Tokens(value))
        /\ \A i \in DOMAIN runArgs : runArgs[i] # <<>>

\* C14: a step that makes a call of init() either succeeds and adds exactly
\* the service to _services, or fails, leaves _services as it was and raises
\* a FailureException.
C14_InitInsertsIffSuccess ==
    [][(pc = "init" /\ Len(calls') = Len(calls) + 1) =>
          LET c == calls'[Len(calls')]
          IN  /\ c.op = "init"
              /\ c.res = "ok" => services' = services \cup {c.svc}
              /\ c.res # "ok" => /\ services' = services
                                 /\ exc'.kind = "Failure"]_vars

\* C15: the service whose Service::stop() is executing is not in _services,
\* no service on which stop has been invoked is in _services afterwards, and
\* stop is invoked at most once on a service.
C15_ErasedBeforeStop ==
    /\ stopping # END => stopping \notin services
    /\ \A s \in Names : Invoked("stop", s) => s \notin services
    /\ \A s \in Names : Times("stop", s) <= 1

C15_Witness ==
    /\ pc = "stopping"
    /\ stopping # END
    /\ stopping \notin services
    /\ services # {}
    /\ \E s \in Names : Failed("stop", s)

\* C16: whenever stopAll() reads its iterator, the iterator designates a
\* record of _services or the end; no assertion of stop() or stopAll() fails.
C16_IteratorValid ==
    /\ pc \in {"stopAll", "stopping"} => (sr = END \/ sr \in services)
    /\ ~assertFailed
    /\ pc # "aborted"

C16_Witness ==
    /\ pc = "stopAll"
    /\ sr \in services
    /\ Cardinality(services) = 2
    /\ \E s \in Names : Failed("stop", s)

\* C17: when run() is over after a start() that raised, the first logged
\* reason is the reason R of the FailureException raised by start(), or, for
\* any other failure, "ServiceManager: exception in start for service
\* <name>: " followed by the message carried by the failure.
C17_StartFailureLogged ==
    (raisedAt = "start" /\ Terminated) =>
        \E i \in DOMAIN calls :
            /\ calls[i].op = "start"
            /\ calls[i].res = "fail"
            /\ logged # <<>>
            /\ logged[1] =
                  IF calls[i].kind = "Failure" THEN ServiceFailure.reason
                  ELSE "ServiceManager: exception in start for service "
                       \o ServiceName(calls[i].svc) \o ": " \o IceException.what

\* C19: start is invoked in ascending order of service name and so is stop:
\* of two services, the one started first is stopped first.
C19_StopInStartOrder ==
    \A i, j \in DOMAIN calls :
        (i < j /\ calls[i].op = calls[j].op /\ calls[i].op \in {"start", "stop"})
            => calls[i].svc < calls[j].svc

C19_Witness ==
    /\ Returned
    /\ cfg = Names
    /\ \A s \in Names : Succeeded("start", s) /\ Invoked("stop", s)

\* run() caught an Ice::Exception after every configured service had been
\* started: adapter->activate() or waitForShutdown() raised it.
LateFailure ==
    /\ from = "catchException"
    /\ cfg # {}
    /\ \A s \in cfg : Succeeded("start", s)

\* C20: when run() is over after adapter->activate() or waitForShutdown()
\* raised once every service was started, stopAll has been invoked, stop has
\* been invoked exactly once on every service, and run() has returned
\* EXIT_FAILURE.
C20_LateFailureStopsAll ==
    (LateFailure /\ Terminated) =>
        /\ stopAllCount = 1
        /\ \A s \in cfg : Times("stop", s) = 1
        /\ ret = <<EXIT_FAILURE>>

\* C18: the counter of a Shared object equals the number of references the
\* threads hold; the object is deleted at most once, by the __decRef that
\* brought the counter to zero, never while a reference is held, and it has
\* been deleted once every reference has been given up; no assert of
\* __incRef or __decRef fails.
C18_CountIsHeld ==
    /\ ref = Held
    /\ deleted <= 1
    /\ deleted = 1 => Held = 0
    /\ \A t \in Threads : hpc[t] = "delete" => (ref = 0 /\ Held = 0 /\ deleted = 0)
    /\ (everHeld /\ Held = 0 /\ \A t \in Threads : hpc[t] = "idle") => deleted = 1
    /\ ~refAssertFailed

\* Another thread has changed the counter between the assert and the
\* increment of a thread inside __incRef.
C18_Witness ==
    /\ deleted = 0
    /\ ref = Held
    /\ \E t \in Threads : hpc[t] = "inc" /\ seen[t] # ref

====
